---- MODULE Spec2Model ----
(***************************************************************************)
(* Model of CPunch/gemini: the Gemini server (listener loop, per-peer      *)
(* handling task, request framing, URL parsing, path router), the body     *)
(* builder and the client (NewRequest) as a state machine.  Strings are    *)
(* sequences of byte values, as Go strings are.                            *)
(***************************************************************************)
EXTENDS Integers, Sequences, FiniteSets, TLC

VARIABLES
    server,   \* the GeminiServer process: accept loop and process liveness
    peers,    \* one GeminiPeer record per connection slot
    pathTbl,  \* pathHandler.pathTbl: path -> handler
    target,   \* URL parser harness: the (uri, hostname, path, param) to encode
    url,      \* URL parser harness: the raw request target
    parsed,   \* URL parser harness: what ParseURL returned
    req,      \* the client: one NewRequest call and its GeminiRequest
    geminiBody,  \* body builder harness: a GeminiBody and the calls made on it
    regs      \* router harness: the AddHandler calls made, in order

vars == <<server, peers, pathTbl, target, url, parsed, req, geminiBody, regs>>

-----------------------------------------------------------------------------
(* Bounds of the model. *)

\* connection slots of the concurrent server specification
MaxConns == 2
\* failed Accept calls the listener is allowed
MaxAcceptErrs == 1
\* a socket call transfers at most this many bytes unless it transfers
\* everything that is asked for
MaxSplit == 3
\* calls made on one GeminiBody
MaxCalls == 3
\* AddHandler calls made on one pathHandler
MaxRegs == 3

-----------------------------------------------------------------------------
(* Program constants. *)

StatusInput == 10
StatusSuccess == 20
StatusTemporaryFailure == 40
\* make([]byte, 1026) and the loop bound of readRequest
ReqBufSize == 1026
\* make([]byte, 1029) and the loop bound of readHeaders
HdrBufSize == 1029
\* make([]byte, 1028) of readBody
BodyBufSize == 1028

-----------------------------------------------------------------------------
(* Byte strings. *)

CRLF == <<13, 10>>                                          \* "\r\n"
SchemeSep == <<58, 47, 47>>                                 \* "://"
DefaultScheme == <<103, 101, 109, 105, 110, 105, 58, 47, 47>>  \* "gemini://"
Slash == <<47>>                                             \* "/"
QMark == <<63>>                                             \* "?"
MetaGemini == <<116, 101, 120, 116, 47, 103, 101, 109, 105, 110, 105>>  \* "text/gemini"
PathPre == <<80, 97, 116, 104, 32, 39>>                     \* "Path '"
PathPost == <<39, 32, 110, 111, 116, 32, 102, 111, 117, 110, 100, 33>>  \* "' not found!"
StayTuned == <<83, 116, 97, 121, 32, 84, 117, 110, 101, 100, 33>>  \* "Stay Tuned!"
ClickMe == <<99, 108, 105, 99, 107, 32, 109, 101, 33>>      \* "click me!"
FavAnimal == <<119, 104, 97, 116, 39, 115, 32, 117, 114, 32, 102, 97, 118, 111, 114, 105, 116, 101, 32, 97, 110, 105, 109, 97, 108, 63>>  \* "what's ur favorite animal?"
PathHi == <<47, 104, 105>>                                  \* "/hi"
PathPost_ == <<47, 112, 111, 115, 116>>                     \* "/post"
PathBoom == <<47, 98, 111, 111, 109>>                       \* "/boom"

Fill(n, b) == [i \in 1..n |-> b]

Min(S) == CHOOSE x \in S : \A y \in S : x <= y

\* s[lo:hi] of Go (0-based, hi exclusive)
Slice(s, lo, hi) == SubSeq(s, lo + 1, hi)

\* the 0-based index of the first occurrence of sub in the byte string t, or -1
IndexIn(t, sub) ==
    LET hits == {i \in 0..(Len(t) - Len(sub)) : Slice(t, i, i + Len(sub)) = sub}
    IN  IF hits = {} THEN -1 ELSE Min(hits)

\* strings.Index (s is evaluated once, then searched)
Index(s, sub) == [t \in {s} |-> IndexIn(t, sub)][s]

HasPrefix(s, p) == Len(p) <= Len(s) /\ Slice(s, 0, Len(p)) = p

Contains(s, sub) == Index(s, sub) # -1

RECURSIVE Itoa(_)
\* the %d verb of fmt.Sprintf on a non-negative int
Itoa(n) == IF n < 10 THEN <<48 + n>> ELSE Itoa(n \div 10) \o <<48 + (n % 10)>>

-----------------------------------------------------------------------------
(* net/url unescaping, as called by ParseURL. *)

ishex(c) == (48 <= c /\ c <= 57) \/ (97 <= c /\ c <= 102) \/ (65 <= c /\ c <= 70)

unhex(c) ==
    IF 48 <= c /\ c <= 57 THEN c - 48
    ELSE IF 97 <= c /\ c <= 102 THEN c - 97 + 10
    ELSE IF 65 <= c /\ c <= 70 THEN c - 65 + 10
    ELSE 0

DecodeErr == [ok |-> FALSE, s |-> <<>>]

RECURSIVE unescapeFrom(_, _, _, _)
\* url.unescape, with t the bytes decoded before the 1-based position i:
\* "%XX" is one byte, "+" is a space in a query component, a "%" without
\* two hex digits is an EscapeError
unescapeFrom(s, i, plusIsSpace, t) ==
    IF i > Len(s) THEN [ok |-> TRUE, s |-> t]
    ELSE IF s[i] = 37
    THEN IF i + 2 > Len(s) \/ ~ishex(s[i + 1]) \/ ~ishex(s[i + 2])
         THEN DecodeErr
         ELSE unescapeFrom(s, i + 3, plusIsSpace,
                           Append(t, 16 * unhex(s[i + 1]) + unhex(s[i + 2])))
    ELSE unescapeFrom(s, i + 1, plusIsSpace,
                      Append(t, IF s[i] = 43 /\ plusIsSpace THEN 32 ELSE s[i]))

QueryUnescape(s) == unescapeFrom(s, 1, TRUE, <<>>)

PathUnescape(s) == unescapeFrom(s, 1, FALSE, <<>>)

-----------------------------------------------------------------------------
(* ParseURL *)

ParseURL(rawUrl) ==
    LET i1 == Index(rawUrl, SchemeSep)
        uri == IF i1 # -1 THEN Slice(rawUrl, 0, i1 + 3) ELSE DefaultScheme
        rest == IF i1 # -1 THEN Slice(rawUrl, i1 + 3, Len(rawUrl)) ELSE rawUrl
        i2 == Index(rest, Slash)
        hostname == IF i2 # -1 THEN Slice(rest, 0, i2) ELSE rest
        path == IF i2 # -1 THEN Slice(rest, i2, Len(rest)) ELSE Slash
        i3 == Index(rawUrl, QMark)
        tparam == QueryUnescape(Slice(rawUrl, i3 + 1, Len(rawUrl)))
        tpath == PathUnescape(Slice(rawUrl, 0, i3))
    IN  IF i3 = -1
        THEN [ok |-> TRUE, uri |-> uri, hostname |-> hostname,
              path |-> path, param |-> <<>>, panic |-> "none"]
        ELSE IF ~tparam.ok
        THEN [ok |-> FALSE, uri |-> <<>>, hostname |-> <<>>, path |-> <<>>,
              param |-> <<>>, panic |-> "failed to decode param!"]
        ELSE IF ~tpath.ok
        THEN [ok |-> FALSE, uri |-> <<>>, hostname |-> <<>>, path |-> <<>>,
              param |-> <<>>, panic |-> "failed to decode path!"]
        ELSE [ok |-> TRUE, uri |-> uri, hostname |-> hostname,
              path |-> tpath.s, param |-> tparam.s, panic |-> "none"]

\* the request line NewRequest writes before the terminator
RequestLine(uri, hostname, path, param) ==
    uri \o hostname \o path \o (IF Len(param) > 0 THEN QMark \o param ELSE <<>>)

-----------------------------------------------------------------------------
(* GeminiBody *)

NewBody == <<>>

AddHeader(buf, str) == buf \o <<35, 32>> \o str \o <<10, 10>>

AddTextLine(buf, str) == buf \o str \o <<10, 10>>

AddLinkLine(buf, u, text) == buf \o <<61, 62, 32>> \o u \o <<32>> \o text \o <<10, 10>>

\* AddRaw as it would be if it assigned the data to the buffer
AddRawAssign(buf, data) == data

AddRaw(buf, data) == buf \o data

-----------------------------------------------------------------------------
(* What a handler asks the peer to send: a sequence of operations, each    *)
(* of which becomes one call of GeminiPeer.Write.                          *)

HeaderOp(by, status, meta) ==
    [kind |-> "header", by |-> by, status |-> status, meta |-> meta, data |-> <<>>]

BodyOp(by, data) ==
    [kind |-> "body", by |-> by, status |-> 0, meta |-> <<>>, data |-> data]

\* fmt.Sprintf("%d %s\r\n", status, meta)
StatusLine(status, meta) == Itoa(status) \o <<32>> \o meta \o CRLF

\* the bytes handed to peer.Write for an operation
OpBytes(op) == IF op.kind = "header" THEN StatusLine(op.status, op.meta) ELSE op.data

sendHeader(by, status, meta) == <<HeaderOp(by, status, meta)>>

SendInput(by, meta) == sendHeader(by, StatusInput, meta)

SendError(by, meta) == sendHeader(by, StatusTemporaryFailure, meta)

\* SendBody as it would be if it wrote the body before the header
SendBodyFirst(by, body) ==
    (IF Len(body) > 0 THEN <<BodyOp(by, body)>> ELSE <<>>)
        \o sendHeader(by, StatusSuccess, MetaGemini)

\* Write of an empty body makes no socket call
SendBody(by, body) ==
    sendHeader(by, StatusSuccess, MetaGemini)
        \o (IF Len(body) > 0 THEN <<BodyOp(by, body)>> ELSE <<>>)

-----------------------------------------------------------------------------
(* The user handlers of the examples, and one that panics. *)

Handlers == {"handleIndex", "handleHi", "handleRequest", "handleBoom"}

handleIndex(p) == SendBody("handleIndex", AddLinkLine(NewBody, PathHi, ClickMe))

handleHi(p) == SendBody("handleHi", AddHeader(NewBody, StayTuned))

\* GetParam: (param, param # "")
handleRequest(p) ==
    IF p.param # <<>>
    THEN SendBody("handleRequest", AddHeader(NewBody, p.param))
    ELSE SendInput("handleRequest", FavAnimal)

HandlerPanics(h) == h = "handleBoom"

HandlerOps(h, p) ==
    CASE h = "handleIndex" -> handleIndex(p)
      [] h = "handleHi" -> handleHi(p)
      [] h = "handleRequest" -> handleRequest(p)
      [] OTHER -> <<>>

\* the route table main() builds before Run: the example's two routes, a
\* route to the handler of examples/post.go and one to a handler that panics
Routes ==
    (Slash :> "handleIndex") @@ (PathHi :> "handleHi")
        @@ (PathPost_ :> "handleRequest") @@ (PathBoom :> "handleBoom")

\* NewHandler: an empty path table
NewHandler == [x \in {} |-> "none"]

\* AddHandler as it would be if a path that is already registered kept
\* its handler
AddHandlerKeepFirst(tbl, path, handler) ==
    [x \in DOMAIN tbl \cup {path} |-> IF x \in DOMAIN tbl THEN tbl[x] ELSE handler]

\* AddHandler: ph.pathTbl[path] = handler
AddHandler(tbl, path, handler) ==
    [x \in DOMAIN tbl \cup {path} |-> IF x = path THEN handler ELSE tbl[x]]

\* the meta of the router's response for an unmatched path
NotFoundMeta(path) == PathPre \o path \o PathPost

-----------------------------------------------------------------------------
(* Peers *)

Conns == 1..MaxConns

NoPanic == "none"

IdlePeer ==
    [pc |-> "idle", request |-> <<>>, stream |-> <<>>, buf |-> <<>>, length |-> 0,
     rawURL |-> <<>>, uri |-> <<>>, hostname |-> <<>>, path |-> <<>>, param |-> <<>>,
     parsed |-> FALSE, invoked |-> <<>>, hdrs |-> <<>>, calls |-> <<>>,
     todo |-> <<>>, written |-> 0, out |-> <<>>,
     panic |-> NoPanic, panicIn |-> "none", recovered |-> FALSE, closes |-> 0]

\* the handlePeer task as it would be if it called the handler before
\* readRequest
newPeerDispatchFirst(request) ==
    [IdlePeer EXCEPT !.pc = "handler", !.request = request, !.stream = request]

\* newPeer, and the start of its handlePeer task; request is what the
\* remote side will send on the socket
newPeer(request) ==
    [IdlePeer EXCEPT !.pc = "readRequest", !.request = request, !.stream = request]

\* a panic unwinds handlePeer to the deferred Kill
Panic(p, value) == [p EXCEPT !.panic = value, !.panicIn = p.pc, !.pc = "Kill"]

\* the counts a socket call may return for a transfer of at most max bytes
Sizes(max, short) == {n \in 1..max : n = max \/ (short /\ n <= MaxSplit)}

EndsWithCRLF(b) == Len(b) >= 2 /\ b[Len(b) - 1] = 13 /\ b[Len(b)] = 10

-----------------------------------------------------------------------------
(* What remote peers send.  A peer sends its bytes and then stays silent   *)
(* or hangs up.                                                            *)

ReqHi == <<47, 104, 105, 13, 10>>                       \* "/hi\r\n"
ReqRoot == <<47, 13, 10>>                               \* "/\r\n"
ReqBare == <<13, 10>>                                   \* "\r\n"
ReqNope == <<104, 47, 110, 13, 10>>                     \* "h/n\r\n"
ReqPost == <<47, 112, 111, 115, 116, 13, 10>>           \* "/post\r\n"
ReqPostQ == <<47, 112, 111, 115, 116, 63, 97, 37, 50, 48, 98, 13, 10>>  \* "/post?a%20b\r\n"
ReqBadPath == <<47, 37, 122, 122, 13, 10>>              \* "/%zz\r\n"
ReqBadQuery == <<47, 110, 63, 37, 122, 122, 13, 10>>    \* "/n?%zz\r\n"
ReqEscCRLF == <<47, 37, 48, 68, 37, 48, 65, 63, 113, 13, 10>>  \* "/%0D%0A?q\r\n"
ReqNoTerm == <<47, 104, 105>>                           \* "/hi", no terminator
ReqBoom == <<47, 98, 111, 111, 109, 13, 10>>            \* "/boom\r\n"
ReqFull == <<103, 101, 109, 105, 110, 105, 58, 47, 47, 104, 47, 104, 105, 13, 10>>  \* "gemini://h/hi\r\n"
ReqFullQ == <<103, 101, 109, 105, 110, 105, 58, 47, 47, 104, 47, 104, 105, 63, 113, 13, 10>>  \* "gemini://h/hi?q\r\n"
\* the longest request line the protocol allows: 1024 bytes and the terminator
ReqLongest == Slash \o Fill(ReqBufSize - 3, 97) \o CRLF
\* more bytes than the buffer holds, no terminator anywhere
ReqTooLong == Fill(ReqBufSize + 1, 97)
\* a 1025-byte line: its terminator ends one byte past the buffer
ReqOneOver == Slash \o Fill(ReqBufSize - 2, 97) \o CRLF

\* the requests of the concurrent server specification
Requests == {ReqHi, ReqNope, ReqNoTerm, ReqBoom, ReqBadQuery}

\* the requests of the single-connection specification
FramerRequests ==
    {ReqHi, ReqRoot, ReqBare, ReqNope, ReqPost, ReqPostQ, ReqBadPath, ReqBadQuery,
     ReqEscCRLF, ReqNoTerm, ReqBoom, ReqFull, ReqFullQ,
     ReqLongest, ReqTooLong, ReqOneOver}

-----------------------------------------------------------------------------
(* The listener loop: GeminiServer.Run *)

\* Accept returns a connection: newPeer and "go server.handlePeer"
Accept(reqs, slots) ==
    /\ ~server.crashed
    /\ server.accepted < slots
    /\ \E r \in reqs :
          peers' = [peers EXCEPT ![server.accepted + 1] = newPeer(r)]
    /\ server' = [server EXCEPT !.accepted = @ + 1]
    /\ UNCHANGED <<pathTbl, target, url, parsed, req, geminiBody, regs>>

\* the loop as it would be without "continue": after a failed Accept a
\* peer is made of the connection that was not returned, and a task started
AcceptErrNoContinue ==
    /\ ~server.crashed
    /\ server.acceptErrs < MaxAcceptErrs
    /\ server.accepted < MaxConns
    /\ server' = [server EXCEPT !.acceptErrs = @ + 1]
    /\ peers' = [peers EXCEPT ![server.accepted + 1] = newPeer(<<>>)]
    /\ UNCHANGED <<pathTbl, target, url, parsed, req, geminiBody, regs>>

\* Accept returns an error: it is logged and the loop continues
AcceptErr ==
    /\ ~server.crashed
    /\ server.acceptErrs < MaxAcceptErrs
    /\ server' = [server EXCEPT !.acceptErrs = @ + 1]
    /\ UNCHANGED <<peers, pathTbl, target, url, parsed, req, geminiBody, regs>>

-----------------------------------------------------------------------------
(* The handling task of one peer: handlePeer *)

\* peer.Read returns sz > 0 bytes into buf[length:]
\* (a value bound by \E over a singleton is computed once)
ReadData(c, short) ==
    /\ ~server.crashed
    /\ peers[c].pc = "readRequest"
    /\ peers[c].length < ReqBufSize
    /\ LET p == peers[c]
           room == ReqBufSize - p.length
           avail == IF Len(p.stream) < room THEN Len(p.stream) ELSE room
       IN  \E sz \in Sizes(avail, short) :
           \E buf \in {p.buf \o Slice(p.stream, 0, sz)} :
              LET length == p.length + sz
                  done == length > 2 /\ buf[length - 1] = 13 /\ buf[length] = 10
              IN  peers' = [peers EXCEPT ![c] =
                      [@ EXCEPT !.buf = buf, !.length = length,
                                !.stream = Slice(@, sz, Len(@)),
                                !.pc = IF done \/ ~(length < ReqBufSize)
                                       THEN "ParseURL" ELSE "readRequest"]]
    /\ UNCHANGED <<server, pathTbl, target, url, parsed, req, geminiBody, regs>>

\* sock.Read returns an error (hangup, reset): peer.Read panics with it
ReadErr(c) ==
    /\ ~server.crashed
    /\ peers[c].pc = "readRequest"
    /\ peers' = [peers EXCEPT ![c] = Panic(@, "read error")]
    /\ UNCHANGED <<server, pathTbl, target, url, parsed, req, geminiBody, regs>>

\* readRequest as it would be if a read of 0 bytes ended the loop
ReadZeroBreak(c) ==
    /\ ~server.crashed
    /\ peers[c].pc = "readRequest"
    /\ peers[c].stream = <<>>
    /\ peers' = [peers EXCEPT ![c] = [@ EXCEPT !.pc = "ParseURL"]]
    /\ UNCHANGED <<server, pathTbl, target, url, parsed, req, geminiBody, regs>>

\* sock.Read returns 0 bytes and no error
ReadZero(c) ==
    /\ ~server.crashed
    /\ peers[c].pc = "readRequest"
    /\ peers[c].stream = <<>>
    /\ peers' = [peers EXCEPT ![c] = Panic(@, "malformed gemini request!")]
    /\ UNCHANGED <<server, pathTbl, target, url, parsed, req, geminiBody, regs>>

\* the assignment of readRequest's results to the peer
Parsed(p, rawURL, r) ==
    IF ~r.ok THEN Panic([p EXCEPT !.rawURL = rawURL], r.panic)
    ELSE [p EXCEPT !.rawURL = rawURL, !.uri = r.uri, !.hostname = r.hostname,
                   !.path = r.path, !.param = r.param, !.parsed = TRUE,
                   !.pc = "handler"]

\* the end of readRequest: rawURL = buf[:length-2], then ParseURL
Parse(c) ==
    /\ ~server.crashed
    /\ peers[c].pc = "ParseURL"
    /\ \E rawURL \in {Slice(peers[c].buf, 0, peers[c].length - 2)} :
          \E r \in {ParseURL(rawURL)} :
              peers' = [peers EXCEPT ![c] =
                  IF peers[c].length < 2 THEN Panic(@, "slice bounds out of range")
                  ELSE Parsed(@, rawURL, r)]
    /\ UNCHANGED <<server, pathTbl, target, url, parsed, req, geminiBody, regs>>

\* HandlePeer as it would be if an unmatched path fell back to the "/" route
HandlePeerFallback(p) ==
    LET h == IF p.path \in DOMAIN pathTbl THEN pathTbl[p.path] ELSE pathTbl[Slash]
    IN  IF HandlerPanics(h)
        THEN Panic([p EXCEPT !.invoked = Append(@, h)], "handler panic")
        ELSE LET ops == HandlerOps(h, p)
             IN  [p EXCEPT !.invoked = Append(@, h), !.todo = ops,
                           !.pc = IF ops = <<>> THEN "Kill" ELSE "Write"]

\* pathHandler.HandlePeer: what the router does with a parsed peer
HandlePeer(p) ==
    IF p.path \in DOMAIN pathTbl
    THEN LET h == pathTbl[p.path]
         IN  IF HandlerPanics(h)
             THEN Panic([p EXCEPT !.invoked = Append(@, h)], "handler panic")
             ELSE LET ops == HandlerOps(h, p)
                  IN  [p EXCEPT !.invoked = Append(@, h), !.todo = ops,
                                !.pc = IF ops = <<>> THEN "Kill" ELSE "Write"]
    ELSE [p EXCEPT !.todo = SendError("router", NotFoundMeta(p.path)),
                   !.pc = "Write"]

\* handlePeer calls the handler Run was given
Dispatch(c) ==
    /\ ~server.crashed
    /\ peers[c].pc = "handler"
    /\ peers' = [peers EXCEPT ![c] = HandlePeer(@)]
    /\ UNCHANGED <<server, pathTbl, target, url, parsed, req, geminiBody, regs>>

\* a Write call is entered when its first sock.Write is made
Entered(p) ==
    LET op == Head(p.todo)
    IN  IF p.written # 0 THEN p
        ELSE [p EXCEPT !.calls = Append(@, OpBytes(op)),
                       !.hdrs = IF op.kind = "header"
                                THEN Append(@, [by |-> op.by, status |-> op.status,
                                                meta |-> op.meta])
                                ELSE @]

\* Write as it would be without its loop: one sock.Write, whatever the
\* count it reports
WriteDataOnce(c, short) ==
    /\ ~server.crashed
    /\ peers[c].pc = "Write"
    /\ \E p \in {Entered(peers[c])} :
       \E bytes \in {OpBytes(Head(p.todo))} :
       \E sz \in Sizes(Len(bytes) - p.written, short) :
          peers' = [peers EXCEPT ![c] =
              [p EXCEPT !.out = @ \o Slice(bytes, p.written, p.written + sz),
                        !.written = 0,
                        !.todo = Tail(@),
                        !.pc = IF Tail(p.todo) = <<>> THEN "Kill" ELSE "Write"]]
    /\ UNCHANGED <<server, pathTbl, target, url, parsed, req, geminiBody, regs>>

\* sock.Write accepts sz > 0 bytes of p[written:]
WriteData(c, short) ==
    /\ ~server.crashed
    /\ peers[c].pc = "Write"
    /\ \E p \in {Entered(peers[c])} :
       \E bytes \in {OpBytes(Head(p.todo))} :
       \E sz \in Sizes(Len(bytes) - p.written, short) :
          LET written == p.written + sz
              more == written < Len(bytes)
          IN  peers' = [peers EXCEPT ![c] =
                  [p EXCEPT !.out = @ \o Slice(bytes, p.written, written),
                            !.written = IF more THEN written ELSE 0,
                            !.todo = IF more THEN @ ELSE Tail(@),
                            !.pc = IF ~more /\ Tail(p.todo) = <<>>
                                   THEN "Kill" ELSE "Write"]]
    /\ UNCHANGED <<server, pathTbl, target, url, parsed, req, geminiBody, regs>>

\* sock.Write returns an error: peer.Write panics with it
WriteErr(c) ==
    /\ ~server.crashed
    /\ peers[c].pc = "Write"
    /\ peers' = [peers EXCEPT ![c] = Panic(Entered(@), "write error")]
    /\ UNCHANGED <<server, pathTbl, target, url, parsed, req, geminiBody, regs>>

\* sock.Write returns 0 bytes and no error
WriteZero(c) ==
    /\ ~server.crashed
    /\ peers[c].pc = "Write"
    /\ peers' = [peers EXCEPT ![c] = Panic(Entered(@), "premature socket hangup!")]
    /\ UNCHANGED <<server, pathTbl, target, url, parsed, req, geminiBody, regs>>

\* Kill as it would be if it returned after logging a recovered panic
KillLeak(c) ==
    /\ ~server.crashed
    /\ peers[c].pc = "Kill"
    /\ peers' = [peers EXCEPT ![c] =
          [@ EXCEPT !.recovered = (peers[c].panic # NoPanic),
                    !.closes = IF peers[c].panic # NoPanic THEN @ ELSE @ + 1,
                    !.pc = "closed"]]
    /\ UNCHANGED <<server, pathTbl, target, url, parsed, req, geminiBody, regs>>

\* Kill as it would be without recover(): the socket is closed and the
\* panic goes on to end the process
KillNoRecover(c) ==
    /\ ~server.crashed
    /\ peers[c].pc = "Kill"
    /\ peers' = [peers EXCEPT ![c] = [@ EXCEPT !.closes = @ + 1, !.pc = "closed"]]
    /\ server' = [server EXCEPT !.crashed = (peers[c].panic # NoPanic)]
    /\ UNCHANGED <<pathTbl, target, url, parsed, req, geminiBody, regs>>

\* the deferred peer.Kill: recover() stops any panic, then sock.Close()
Kill(c) ==
    /\ ~server.crashed
    /\ peers[c].pc = "Kill"
    /\ peers' = [peers EXCEPT ![c] =
          [@ EXCEPT !.recovered = (peers[c].panic # NoPanic), !.closes = @ + 1,
                    !.pc = "closed"]]
    /\ UNCHANGED <<server, pathTbl, target, url, parsed, req, geminiBody, regs>>

\* one step of the handling task of peer c
PeerStep(c, short) ==
    \/ ReadData(c, short)
    \/ ReadErr(c)
    \/ ReadZero(c)
    \/ Parse(c)
    \/ Dispatch(c)
    \/ WriteData(c, short)
    \/ WriteErr(c)
    \/ WriteZero(c)
    \/ Kill(c)

-----------------------------------------------------------------------------
(* The client: NewRequest and the GeminiRequest it returns.  The server   *)
(* it talks to sends a response and closes the connection.                *)

\* the Write calls as they would be if the "?" were written for an empty
\* param too
RequestWritesAlwaysQuery(uri, hostname, path, param) ==
    <<uri \o hostname \o path, QMark \o param, CRLF>>

\* the arguments of the Write calls NewRequest makes, in order
RequestWrites(uri, hostname, path, param) ==
    <<uri \o hostname \o path>>
        \o (IF Len(param) > 0 THEN <<QMark \o param>> ELSE <<>>)
        \o <<CRLF>>

NonEmpty(p) == p # <<>>

\* panic(err) and panic(fmt.Errorf(...)) carry an error, the other panics
\* of the client carry a string
IsError(value) == value \in {"write error", "Read: read error"}

\* what the deferred function of NewRequest leaves in (req, err) after a
\* panic: recover().(error) succeeds for an error value only
Recovered(value) ==
    IF IsError(value) THEN [req |-> FALSE, err |-> TRUE]
    ELSE [req |-> TRUE, err |-> FALSE]

IdleRequest ==
    [pc |-> "idle", uri |-> <<>>, hostname |-> <<>>, path |-> <<>>, param |-> <<>>,
     todo |-> <<>>, written |-> 0, sent |-> <<>>,
     response |-> <<>>, stream |-> <<>>, buf |-> <<>>, length |-> 0,
     headerRead |-> FALSE, responseHeader |-> <<>>,
     bodyBuf |-> <<>>, responseBody |-> <<>>,
     panic |-> NoPanic, panicIn |-> "none",
     ret |-> [req |-> FALSE, err |-> FALSE], dialed |-> FALSE, closes |-> 0]

\* a panic unwinds NewRequest to its deferred function, and NewRequest
\* returns what that function leaves in (req, err); the deferred function
\* does not close the socket (closes counts the sock.Close calls of the
\* client: neither NewRequest nor LazyRequest makes one)
ReqPanic(r, value) ==
    [r EXCEPT !.panic = value, !.panicIn = r.pc, !.ret = Recovered(value),
              !.pc = "returned"]

\* NewRequest is called and net.Dial succeeds; response is what the server
\* will send before it closes the connection
NewRequest(targets, responses) ==
    /\ req.pc = "idle"
    /\ \E t \in targets, response \in responses :
          req' = [req EXCEPT !.uri = t.uri, !.hostname = t.hostname,
                             !.path = t.path, !.param = t.param,
                             !.todo = SelectSeq(RequestWrites(t.uri, t.hostname,
                                                              t.path, t.param),
                                                NonEmpty),
                             !.response = response, !.stream = response,
                             !.dialed = TRUE, !.pc = "Write"]
    /\ UNCHANGED <<server, peers, pathTbl, target, url, parsed, geminiBody, regs>>

\* NewRequest is called and net.Dial fails: return nil, err
DialErr ==
    /\ req.pc = "idle"
    /\ req' = [req EXCEPT !.ret = [req |-> FALSE, err |-> TRUE], !.pc = "returned"]
    /\ UNCHANGED <<server, peers, pathTbl, target, url, parsed, geminiBody, regs>>

\* GeminiRequest.Write: sock.Write accepts sz > 0 bytes of p[written:]
ReqWriteData(short) ==
    /\ req.pc = "Write"
    /\ \E bytes \in {Head(req.todo)} :
       \E sz \in Sizes(Len(bytes) - req.written, short) :
          LET written == req.written + sz
              more == written < Len(bytes)
          IN  req' = [req EXCEPT !.sent = @ \o Slice(bytes, req.written, written),
                                 !.written = IF more THEN written ELSE 0,
                                 !.todo = IF more THEN @ ELSE Tail(@),
                                 !.pc = IF ~more /\ Tail(req.todo) = <<>>
                                        THEN "readHeaders" ELSE "Write"]
    /\ UNCHANGED <<server, peers, pathTbl, target, url, parsed, geminiBody, regs>>

\* sock.Write returns an error: req.Write panics with it
ReqWriteErr ==
    /\ req.pc = "Write"
    /\ req' = ReqPanic(req, "write error")
    /\ UNCHANGED <<server, peers, pathTbl, target, url, parsed, geminiBody, regs>>

\* sock.Write returns 0 bytes and no error
ReqWriteZero ==
    /\ req.pc = "Write"
    /\ req' = ReqPanic(req, "premature socket hangup!")
    /\ UNCHANGED <<server, peers, pathTbl, target, url, parsed, geminiBody, regs>>

\* readHeaders: req.Read returns sz > 0 bytes into buf[length:]; the loop
\* ends on a terminator at the end of what was read or on a full buffer,
\* and responseHeader = buf[:length-2]
ReadHeaders(short) ==
    /\ req.pc = "readHeaders"
    /\ req.length < HdrBufSize
    /\ LET room == HdrBufSize - req.length
           avail == IF Len(req.stream) < room THEN Len(req.stream) ELSE room
       IN  \E sz \in Sizes(avail, short) :
           \E buf \in {req.buf \o Slice(req.stream, 0, sz)} :
              LET length == req.length + sz
                  done == length > 2 /\ buf[length - 1] = 13 /\ buf[length] = 10
                  over == done \/ ~(length < HdrBufSize)
              IN  req' = [req EXCEPT
                      !.buf = buf, !.length = length,
                      !.stream = Slice(@, sz, Len(@)),
                      !.headerRead = over,
                      !.responseHeader = IF over THEN Slice(buf, 0, length - 2) ELSE @,
                      !.bodyBuf = IF over THEN Fill(BodyBufSize, 0) ELSE @,
                      !.pc = IF over THEN "readBody" ELSE "readHeaders"]
    /\ UNCHANGED <<server, peers, pathTbl, target, url, parsed, geminiBody, regs>>

\* readHeaders: the server has closed the connection; req.Read ignores
\* io.EOF and returns 0
HdrEOF ==
    /\ req.pc = "readHeaders"
    /\ req.stream = <<>>
    /\ req' = ReqPanic(req, "malformed gemini response!")
    /\ UNCHANGED <<server, peers, pathTbl, target, url, parsed, geminiBody, regs>>

\* readHeaders: sock.Read returns an error other than io.EOF
HdrReadErr ==
    /\ req.pc = "readHeaders"
    /\ req' = ReqPanic(req, "Read: read error")
    /\ UNCHANGED <<server, peers, pathTbl, target, url, parsed, geminiBody, regs>>

\* readBody: req.Read(buf) returns sz > 0 bytes at the start of buf, and
\* string(buf[0:]) is appended to responseBody
ReadBody(short) ==
    /\ req.pc = "readBody"
    /\ req.stream # <<>>
    /\ LET avail == IF Len(req.stream) < BodyBufSize
                    THEN Len(req.stream) ELSE BodyBufSize
       IN  \E sz \in Sizes(avail, short) :
           \E buf \in {Slice(req.stream, 0, sz) \o Slice(req.bodyBuf, sz, BodyBufSize)} :
              req' = [req EXCEPT !.bodyBuf = buf,
                                 !.stream = Slice(@, sz, Len(@)),
                                 !.responseBody = @ \o buf]
    /\ UNCHANGED <<server, peers, pathTbl, target, url, parsed, geminiBody, regs>>

\* readBody: the server has closed the connection, req.Read returns 0;
\* string(buf[0:]) is appended once more, the loop ends and NewRequest
\* returns req, nil
BodyEOF ==
    /\ req.pc = "readBody"
    /\ req.stream = <<>>
    /\ req' = [req EXCEPT !.responseBody = @ \o req.bodyBuf,
                          !.ret = [req |-> TRUE, err |-> FALSE],
                          !.pc = "returned"]
    /\ UNCHANGED <<server, peers, pathTbl, target, url, parsed, geminiBody, regs>>

\* readBody: sock.Read returns an error other than io.EOF
BodyReadErr ==
    /\ req.pc = "readBody"
    /\ req' = ReqPanic(req, "Read: read error")
    /\ UNCHANGED <<server, peers, pathTbl, target, url, parsed, geminiBody, regs>>

\* one step of a NewRequest call after the dial
RequestStep(short) ==
    \/ ReqWriteData(short)
    \/ ReqWriteErr
    \/ ReqWriteZero
    \/ ReadHeaders(short)
    \/ HdrEOF
    \/ HdrReadErr
    \/ ReadBody(short)
    \/ BodyEOF
    \/ BodyReadErr

-----------------------------------------------------------------------------
(* Specifications *)

NoTarget == [uri |-> <<>>, hostname |-> <<>>, path |-> <<>>, param |-> <<>>]

\* the body builder harness before NewBody
NoBody == [buf |-> <<>>, calls |-> <<>>]

NotParsed == [ok |-> FALSE, uri |-> <<>>, hostname |-> <<>>, path |-> <<>>,
              param |-> <<>>, panic |-> "not called"]

Init ==
    /\ server = [accepted |-> 0, acceptErrs |-> 0, crashed |-> FALSE]
    /\ peers = [c \in Conns |-> IdlePeer]
    /\ pathTbl = Routes
    /\ target = NoTarget
    /\ url = <<>>
    /\ parsed = NotParsed
    /\ req = IdleRequest
    /\ geminiBody = NoBody
    /\ regs = <<>>

\* the server with its peers handled concurrently; every socket call
\* transfers all it is asked for
Next ==
    \/ Accept(Requests, MaxConns)
    \/ AcceptErr
    \/ \E c \in Conns : PeerStep(c, FALSE)

Spec == Init /\ [][Next]_vars

\* one peer, with short reads and writes and requests up to the buffer size
NextFramer ==
    \/ Accept(FramerRequests, 1)
    \/ PeerStep(1, TRUE)

SpecFramer == Init /\ [][NextFramer]_vars

\* every socket call returns and the handling task is scheduled
FairFramer == SpecFramer /\ WF_vars(PeerStep(1, TRUE))

-----------------------------------------------------------------------------
(* The URL parser on its own: ParseURL applied to raw targets, and to the  *)
(* request lines NewRequest builds from (uri, hostname, path, param).      *)

SchemeHttp == <<104, 116, 116, 112, 58, 47, 47>>            \* "http://"
HostH == <<104>>                                            \* "h"
HostDot == <<97, 46, 98>>                                   \* "a.b"
PathAB == <<47, 97, 47, 98>>                                \* "/a/b"
PathEsc == <<47, 97, 37, 50, 48, 98>>                       \* "/a%20b"
PathBad == <<47, 37, 122, 122>>                             \* "/%zz"
PathEscCRLF == <<47, 37, 48, 68, 37, 48, 65>>               \* "/%0D%0A"
QueryQ == <<113>>                                           \* "q"
QueryAB == <<97, 61, 98>>                                   \* "a=b"
QueryEsc == <<97, 37, 50, 48, 98>>                          \* "a%20b"
QueryDecoded == <<97, 32, 98>>                              \* "a b"
QueryBad == <<37, 122, 122>>                                \* "%zz"
QueryPlus == <<97, 43, 98>>                                 \* "a+b"
QueryCut == <<37, 52>>                                      \* "%4"

\* request targets without characters that need escaping
Targets ==
    [uri : {DefaultScheme, SchemeHttp}, hostname : {HostH, HostDot},
     path : {Slash, PathHi, PathAB}, param : {<<>>, QueryQ, QueryAB}]

\* raw request targets: scheme or none, host or none, path or none, query or none
RawUrls ==
    {sc \o h \o pa \o q :
        sc \in {<<>>, DefaultScheme, SchemeHttp}, h \in {<<>>, HostH},
        pa \in {<<>>, Slash, PathHi, PathEsc, PathBad, PathEscCRLF},
        q \in {<<>>} \cup {QMark \o x :
                 x \in {<<>>, QueryQ, QueryEsc, QueryBad, QueryPlus, QueryCut}}}

InitParse ==
    /\ server = [accepted |-> 0, acceptErrs |-> 0, crashed |-> FALSE]
    /\ peers = [c \in Conns |-> IdlePeer]
    /\ pathTbl = Routes
    /\ req = IdleRequest
    /\ geminiBody = NoBody
    /\ regs = <<>>
    /\ parsed = NotParsed
    /\ \/ target \in Targets /\ url = <<>>
       \/ target = NoTarget /\ url \in RawUrls

\* the request line of NewRequest for the target
Encode ==
    /\ target # NoTarget
    /\ url = <<>>
    /\ url' = RequestLine(target.uri, target.hostname, target.path, target.param)
    /\ UNCHANGED <<server, peers, pathTbl, target, parsed, req, geminiBody, regs>>

CallParseURL ==
    /\ parsed = NotParsed
    /\ target = NoTarget \/ url # <<>>
    /\ parsed' = ParseURL(url)
    /\ UNCHANGED <<server, peers, pathTbl, target, url, req, geminiBody, regs>>

NextParse == Encode \/ CallParseURL

SpecParse == InitParse /\ [][NextParse]_vars

-----------------------------------------------------------------------------
(* The client on its own: one NewRequest call against a server that sends *)
(* a response and closes, with short reads and writes.                    *)

\* what servers send before they close the connection
RespHi == StatusLine(StatusSuccess, MetaGemini) \o AddHeader(NewBody, StayTuned)
RespStatusOnly == StatusLine(StatusSuccess, MetaGemini)
RespInput == StatusLine(StatusInput, FavAnimal)
RespNotFound == StatusLine(StatusTemporaryFailure, NotFoundMeta(PathHi))
RespNoTerm == <<50, 48, 32, 116, 101, 120, 116>>   \* "20 text", then the close
RespEmpty == <<>>                                  \* the close and nothing else
\* the longest header the protocol allows: status, space, 1024 bytes of meta
RespLongest == <<50, 48, 32>> \o Fill(HdrBufSize - 5, 97) \o CRLF
\* more bytes than the header buffer holds, no terminator anywhere
RespTooLong == <<50, 48, 32>> \o Fill(HdrBufSize - 2, 97)
\* a 1025-byte meta: the terminator ends one byte past the buffer
RespOneOver == <<50, 48, 32>> \o Fill(HdrBufSize - 4, 97) \o CRLF

\* a status line and a body that ends in CR LF: "20 text/gemini\r\nhi\r\n"
RespTwoLines == StatusLine(StatusSuccess, MetaGemini) \o <<104, 105>> \o CRLF

Responses ==
    {RespHi, RespStatusOnly, RespInput, RespNotFound, RespNoTerm, RespEmpty,
     RespLongest, RespTooLong, RespOneOver, RespTwoLines}

\* the arguments NewRequest is called with
TargetHi ==
    [uri |-> DefaultScheme, hostname |-> HostH, path |-> PathHi, param |-> <<>>]
TargetPostQ ==
    [uri |-> DefaultScheme, hostname |-> HostH, path |-> PathPost_, param |-> QueryQ]

\* the request with a query is made of servers that answer with a status
\* line only
NextClient ==
    \/ NewRequest({TargetHi}, Responses)
    \/ NewRequest({TargetPostQ}, {RespInput, RespStatusOnly})
    \/ DialErr
    \/ RequestStep(TRUE)

SpecClient == Init /\ [][NextClient]_vars

-----------------------------------------------------------------------------
(* The body builder on its own: calls on one GeminiBody.                   *)

TextHi == <<72, 105>>                                       \* "Hi"
TextLines == <<97, 10, 98>>                                 \* "a\nb"

BodyTexts == {TextHi, TextLines}

\* a call is recorded with its arguments
BodyCall(op, a, b) ==
    [geminiBody EXCEPT !.calls = Append(@, [op |-> op, a |-> a, b |-> b])]

BodyAddHeader ==
    /\ Len(geminiBody.calls) < MaxCalls
    /\ \E str \in BodyTexts :
          geminiBody' = [BodyCall("AddHeader", str, <<>>) EXCEPT
                            !.buf = AddHeader(@, str)]
    /\ UNCHANGED <<server, peers, pathTbl, target, url, parsed, req, regs>>

BodyAddTextLine ==
    /\ Len(geminiBody.calls) < MaxCalls
    /\ \E str \in BodyTexts :
          geminiBody' = [BodyCall("AddTextLine", str, <<>>) EXCEPT
                            !.buf = AddTextLine(@, str)]
    /\ UNCHANGED <<server, peers, pathTbl, target, url, parsed, req, regs>>

BodyAddLinkLine ==
    /\ Len(geminiBody.calls) < MaxCalls
    /\ \E text \in BodyTexts :
          geminiBody' = [BodyCall("AddLinkLine", PathHi, text) EXCEPT
                            !.buf = AddLinkLine(@, PathHi, text)]
    /\ UNCHANGED <<server, peers, pathTbl, target, url, parsed, req, regs>>

BodyAddRaw ==
    /\ Len(geminiBody.calls) < MaxCalls
    /\ \E data \in BodyTexts \cup {<<>>} :
          geminiBody' = [BodyCall("AddRaw", data, <<>>) EXCEPT
                            !.buf = AddRaw(@, data)]
    /\ UNCHANGED <<server, peers, pathTbl, target, url, parsed, req, regs>>

NextBody == BodyAddHeader \/ BodyAddTextLine \/ BodyAddLinkLine \/ BodyAddRaw

SpecBody == Init /\ [][NextBody]_vars

-----------------------------------------------------------------------------
(* The router on its own: main registers handlers on a new pathHandler,   *)
(* then the server dispatches one request with it.                        *)

PathHiSlash == <<47, 104, 105, 47>>                         \* "/hi/"
ReqHiSlash == <<47, 104, 105, 47, 13, 10>>                  \* "/hi/\r\n"
ReqH == <<47, 104, 13, 10>>                                 \* "/h\r\n"

RouterPaths == {Slash, PathHi, PathHiSlash}

RouterHandlers == {"handleIndex", "handleHi"}

RouterRequests == {ReqRoot, ReqHi, ReqHiSlash, ReqH, ReqNoTerm}

InitRouter ==
    /\ server = [accepted |-> 0, acceptErrs |-> 0, crashed |-> FALSE]
    /\ peers = [c \in Conns |-> IdlePeer]
    /\ pathTbl = NewHandler
    /\ target = NoTarget
    /\ url = <<>>
    /\ parsed = NotParsed
    /\ req = IdleRequest
    /\ geminiBody = NoBody
    /\ regs = <<>>

\* main calls AddHandler before it calls Run
Register ==
    /\ server.accepted = 0
    /\ Len(regs) < MaxRegs
    /\ \E path \in RouterPaths, handler \in RouterHandlers :
          /\ pathTbl' = AddHandler(pathTbl, path, handler)
          /\ regs' = Append(regs, [path |-> path, handler |-> handler])
    /\ UNCHANGED <<server, peers, target, url, parsed, req, geminiBody>>

NextRouter ==
    \/ Register
    \/ Accept(RouterRequests, 1)
    \/ PeerStep(1, FALSE)

SpecRouter == InitRouter /\ [][NextRouter]_vars

-----------------------------------------------------------------------------
(* The two bounded readers, readRequest of the server and readHeaders of  *)
(* the client, each in a run of its own program.                          *)

NextReaders ==
    \/ req.pc = "idle" /\ NextFramer
    \/ server.accepted = 0 /\ NextClient

SpecReaders == Init /\ [][NextReaders]_vars

-----------------------------------------------------------------------------
(* LazyRequest: ParseURL of the caller's URL, then NewRequest with what it *)
(* returned.                                                                *)

\* URLs with a scheme, a host, a path and possibly a query, no escapes
CleanUrls ==
    {RequestLine(t.uri, t.hostname, t.path, t.param) : t \in Targets}

\* "gemini://h/hi?%zz"
UrlBadQuery == DefaultScheme \o HostH \o PathHi \o QMark \o QueryBad

LazyUrls == CleanUrls \cup {UrlBadQuery}

\* LazyRequest(u): a panic of ParseURL is not recovered and unwinds into
\* the caller; otherwise NewRequest is called with the four results and
\* port 1965
LazyRequest(urls, responses) ==
    /\ req.pc = "idle"
    /\ url = <<>>
    /\ \E u \in urls, response \in responses :
       \E r \in {ParseURL(u)} :
          /\ url' = u
          /\ parsed' = r
          /\ req' = IF ~r.ok
                    THEN [req EXCEPT !.panic = r.panic, !.panicIn = "ParseURL",
                                     !.pc = "panicked"]
                    ELSE [req EXCEPT
                             !.uri = r.uri, !.hostname = r.hostname,
                             !.path = r.path, !.param = r.param,
                             !.todo = SelectSeq(RequestWrites(r.uri, r.hostname,
                                                              r.path, r.param),
                                                NonEmpty),
                             !.response = response, !.stream = response,
                             !.dialed = TRUE, !.pc = "Write"]
    /\ UNCHANGED <<server, peers, pathTbl, target, geminiBody, regs>>

\* LazyRequest(u) and net.Dial fails
LazyDialErr ==
    /\ req.pc = "idle"
    /\ url = <<>>
    /\ \E u \in CleanUrls :
          /\ url' = u
          /\ parsed' = ParseURL(u)
          /\ req' = [req EXCEPT !.ret = [req |-> FALSE, err |-> TRUE],
                                !.pc = "returned"]
    /\ UNCHANGED <<server, peers, pathTbl, target, geminiBody, regs>>

NextLazy ==
    \/ LazyRequest(LazyUrls, {RespStatusOnly, RespInput, RespTwoLines, RespNoTerm})
    \/ LazyDialErr
    \/ RequestStep(TRUE)

SpecLazy == Init /\ [][NextLazy]_vars

-----------------------------------------------------------------------------
(* Properties *)

IsPrefix(a, b) == Len(a) <= Len(b) /\ a = Slice(b, 0, Len(a))

\* the request line is longer than the buffer allows: the buffer is full
\* and does not end in the terminator
OverBound(p) == p.length = ReqBufSize /\ ~EndsWithCRLF(p.buf)

\* s has a "%" that is not followed by two hex digits
BadEscape(s) ==
    \E i \in 1..Len(s) :
        s[i] = 37 /\ (i + 2 > Len(s) \/ ~ishex(s[i + 1]) \/ ~ishex(s[i + 2]))

\* s without its last two bytes
Chop(s) == Slice(s, 0, Len(s) - 2)

\* C1: every accepted connection is closed exactly once, whether the
\* handler returned or a panic was raised while reading, parsing,
\* dispatching or writing, and every accepted connection eventually
\* reaches Closed.
C1_ClosedExactlyOnce ==
    /\ [](\A c \in Conns :
            /\ peers[c].closes <= 1
            /\ (peers[c].pc = "closed") <=> (peers[c].closes = 1))
    /\ \A c \in Conns : (peers[c].pc # "idle") ~> (peers[c].pc = "closed")

\* a connection that was closed once after a panic raised while writing
C1_Witness ==
    /\ peers[1].pc = "closed"
    /\ peers[1].closes = 1
    /\ peers[1].panicIn = "Write"
    /\ peers[1].recovered

\* C2: whatever a connection does, the process never crashes and the
\* accept loop goes on accepting (while the model has a free slot), and a
\* step changes the record of at most one connection.
C2_Isolation ==
    /\ [](/\ ~server.crashed
          /\ server.accepted < MaxConns => ENABLED Accept(Requests, MaxConns))
    /\ [][\A c \in Conns :
            peers'[c] # peers[c] => \A d \in Conns \ {c} : peers'[d] = peers[d]]_vars

\* one connection has panicked and been recovered while another one is
\* still being served
C2_Witness ==
    \E c, d \in Conns :
        /\ c # d
        /\ peers[c].pc = "closed" /\ peers[c].recovered
        /\ peers[d].pc = "Write" /\ peers[d].panic = NoPanic

\* C3: a request that fills the 1026-byte buffer without the terminator is
\* a fatal framing error: it is not parsed, no handler runs and no status
\* line is written.
C3_OverBoundIsFatal ==
    \A c \in Conns :
        LET p == peers[c]
        IN  OverBound(p) =>
                /\ ~p.parsed
                /\ p.invoked = <<>>
                /\ p.hdrs = <<>>
                /\ p.out = <<>>
                /\ p.pc = "closed" => p.panicIn = "readRequest"

\* C4: once a request shorter than 1024 bytes that ends in CR LF has been
\* delivered, however it was split, reading is over without an error and
\* the raw request line is the request without its terminator.
C4_ReadingTerminates ==
    \A c \in Conns :
        LET p == peers[c]
        IN  (/\ p.pc # "idle"
             /\ Len(p.request) < ReqBufSize - 2
             /\ EndsWithCRLF(p.request)
             /\ p.stream = <<>>
             /\ p.panic # "read error")
            => /\ p.pc # "readRequest"
               /\ p.panicIn # "readRequest"
               /\ p.pc # "ParseURL" => p.rawURL = Chop(p.request)

\* C5: a peer whose request is malformed (reading failed, or the line is
\* over the bound) or has an invalid percent escape is sent no byte.
C5_NoBytesForBadRequest ==
    \A c \in Conns :
        LET p == peers[c]
        IN  (\/ p.panicIn = "readRequest"
             \/ OverBound(p)
             \/ (p.pc \notin {"idle", "readRequest"} /\ BadEscape(Chop(p.buf))))
            => p.out = <<>>

\* C6: dispatching an unmatched path invokes no handler and writes exactly
\* one status line, "40 " meta CR LF with the path inside meta, and no
\* body; dispatching a registered path invokes exactly the registered
\* handler once and every status line is the handler's own.
C6_Dispatch ==
    \A c \in Conns :
        LET p == peers[c]
        IN  (p.parsed /\ p.pc # "handler") =>
                IF p.path \notin DOMAIN pathTbl
                THEN /\ p.invoked = <<>>
                     /\ Len(p.hdrs) <= 1
                     /\ Len(p.calls) = Len(p.hdrs)
                     /\ \A i \in DOMAIN p.hdrs :
                          /\ p.hdrs[i].status = 40
                          /\ Contains(p.hdrs[i].meta, p.path)
                          /\ p.calls[i] = <<52, 48, 32>> \o p.hdrs[i].meta \o <<13, 10>>
                          /\ IsPrefix(p.out, p.calls[i])
                     /\ p.calls = <<>> => p.out = <<>>
                     /\ (p.pc \in {"Kill", "closed"} /\ p.panic = NoPanic)
                          => p.calls = <<p.out>>
                ELSE /\ p.invoked = <<pathTbl[p.path]>>
                     /\ \A i \in DOMAIN p.hdrs : p.hdrs[i].by = p.invoked[1]

\* an unmatched request that was answered and closed
C6_Witness ==
    /\ peers[1].pc = "closed"
    /\ peers[1].parsed
    /\ peers[1].path \notin DOMAIN pathTbl
    /\ peers[1].panic = NoPanic
    /\ Len(peers[1].out) > 0

\* C7: every status line written has a two-digit status code and a meta
\* without CR or LF, so the line has exactly one CR LF, at its end.
C7_StatusLineForm ==
    \A c \in Conns :
        \A i \in DOMAIN peers[c].hdrs :
            LET h == peers[c].hdrs[i]
            IN  /\ 10 <= h.status /\ h.status <= 99
                /\ \A j \in DOMAIN h.meta : h.meta[j] \notin {13, 10}

\* the raw target after its scheme
AfterScheme(raw) ==
    LET i == Index(raw, SchemeSep)
    IN  IF i # -1 THEN Slice(raw, i + 3, Len(raw)) ELSE raw

\* C8: whenever ParseURL succeeds the path starts with "/" and holds
\* neither the scheme nor the host; without a "/" after the host it is "/".
C8_PathNormalized ==
    (parsed # NotParsed /\ parsed.ok) =>
        /\ HasPrefix(parsed.path, Slash)
        /\ ~Contains(parsed.path, SchemeSep)
        /\ ~Contains(AfterScheme(url), Slash) => parsed.path = Slash

\* C9: ParseURL of the request line built from (scheme, host, path, query)
\* returns exactly (scheme, host, path, query).
C9_RoundTrip ==
    (target # NoTarget /\ parsed # NotParsed) =>
        /\ parsed.ok
        /\ parsed.uri = target.uri
        /\ parsed.hostname = target.hostname
        /\ parsed.path = target.path
        /\ parsed.param = target.param

\* the path and query segments of a raw target: what follows the host
PathAndQuery(raw) ==
    LET rest == AfterScheme(raw)
        cut == {i \in 1..Len(rest) : rest[i] \in {47, 63}}
    IN  IF cut = {} THEN <<>> ELSE Slice(rest, Min(cut) - 1, Len(rest))

\* C10: ParseURL fails whenever the path or the query segment has an
\* invalid percent escape, with or without a "?", and a valid escape is
\* decoded.
C10_BadEscapeFails ==
    parsed # NotParsed =>
        /\ BadEscape(PathAndQuery(url)) => ~parsed.ok
        /\ (parsed.ok /\ Contains(url, QMark \o QueryEsc)) => parsed.param = QueryDecoded

\* C11: NewRequest returns (nil, err) whenever a fatal condition was raised
\* while writing the request or reading the response, the server closing
\* before the header terminator included; it returns (req, nil) when
\* nothing was raised, a close while reading the body included; and it
\* never returns (req, nil) with a header that was not completely read.
C11_FailureReported ==
    (req.pc = "returned" /\ req.dialed) =>
        /\ req.panic # NoPanic => req.ret = [req |-> FALSE, err |-> TRUE]
        /\ req.panic = NoPanic => req.ret = [req |-> TRUE, err |-> FALSE]
        /\ (req.ret.req /\ ~req.ret.err) => req.headerRead

\* what follows the first CR LF of a response stream
AfterHeader(response) ==
    LET i == Index(response, CRLF)
    IN  IF i = -1 THEN <<>> ELSE Slice(response, i + 2, Len(response))

\* C12: the body NewRequest returns is exactly the bytes the server sent
\* after the header and before it closed the connection, however they
\* were split across reads: 16 bytes for "# Stay Tuned!\n\n", none for a
\* response that is a status line only.
C12_BodyExact ==
    (req.pc = "returned" /\ req.ret.req /\ req.headerRead) =>
        /\ req.responseBody = AfterHeader(req.response)
        /\ req.response = RespHi => Len(req.responseBody) = 16
        /\ req.response = RespStatusOnly => req.responseBody = <<>>

\* the request line of the arguments of the NewRequest call in progress
LineOfCall ==
    req.uri \o req.hostname \o req.path
        \o (IF req.param # <<>> THEN <<63>> \o req.param ELSE <<>>)
        \o <<13, 10>>

\* C13: the bytes NewRequest has written when it starts to read the
\* response are exactly uri + hostname + path, "?" + param only when
\* param is non-empty, and CR LF; what it has written before is a prefix
\* of that, and it writes nothing once it reads.
C13_RequestBytes ==
    /\ [](req.dialed =>
            /\ IsPrefix(req.sent, LineOfCall)
            /\ req.pc \in {"readHeaders", "readBody"} => req.sent = LineOfCall
            /\ req.panicIn \in {"readHeaders", "readBody"} => req.sent = LineOfCall
            /\ (req.pc = "returned" /\ req.panic = NoPanic) => req.sent = LineOfCall)
    /\ [][req.pc \in {"readHeaders", "readBody"} => req'.sent = req.sent]_vars

\* "gemini://h/post?q" CR LF has been written and the response header
\* has been read
C13_Witness ==
    /\ req.pc = "readBody"
    /\ req.param # <<>>
    /\ req.sent = <<103, 101, 109, 105, 110, 105, 58, 47, 47, 104,
                    47, 112, 111, 115, 116, 63, 113, 13, 10>>

\* the bytes a call is to append, by its arguments
Piece(call) ==
    CASE call.op = "AddHeader" -> <<35, 32>> \o call.a \o <<10, 10>>
      [] call.op = "AddTextLine" -> call.a \o <<10, 10>>
      [] call.op = "AddLinkLine" -> <<61, 62, 32>> \o call.a \o <<32>> \o call.b \o <<10, 10>>
      [] call.op = "AddRaw" -> call.a

RECURSIVE Pieces(_)
Pieces(calls) ==
    IF calls = <<>> THEN <<>> ELSE Piece(Head(calls)) \o Pieces(Tail(calls))

\* C14: after any sequence of AddHeader, AddTextLine, AddLinkLine and
\* AddRaw calls the buffer is the concatenation, in call order, of what
\* each call appends; no call is ever refused; and the buffer before a
\* call is a prefix of the buffer after it.
C14_AppendOnly ==
    /\ [](/\ geminiBody.buf = Pieces(geminiBody.calls)
          /\ Len(geminiBody.calls) < MaxCalls =>
                /\ ENABLED BodyAddHeader
                /\ ENABLED BodyAddTextLine
                /\ ENABLED BodyAddLinkLine
                /\ ENABLED BodyAddRaw)
    /\ [][IsPrefix(geminiBody.buf, geminiBody'.buf)]_vars

\* AddHeader("Hi"), then a link line and raw data on the same buffer:
\* "# Hi\n\n=> /hi Hi\n\nHi"
C14_Witness ==
    /\ Len(geminiBody.calls) = 3
    /\ geminiBody.calls[1].op = "AddHeader"
    /\ geminiBody.calls[2].op = "AddLinkLine"
    /\ geminiBody.calls[3].op = "AddRaw"
    /\ geminiBody.buf = <<35, 32, 72, 105, 10, 10,
                          61, 62, 32, 47, 104, 105, 32, 72, 105, 10, 10, 72, 105>>

\* the positions of the registrations made for exactly this path
RegsOf(path) == {i \in DOMAIN regs : regs[i].path = path}

Max(S) == CHOOSE x \in S : \A y \in S : x >= y

\* C15: the route table maps each registered path to the handler of the
\* last registration for exactly that path, and a dispatched request
\* invokes that handler if its path equals a registered path and is
\* answered with the router's 40 status line, no handler invoked, if it
\* does not.
C15_ExactRoutes ==
    /\ DOMAIN pathTbl = {regs[i].path : i \in DOMAIN regs}
    /\ \A path \in DOMAIN pathTbl : pathTbl[path] = regs[Max(RegsOf(path))].handler
    /\ \A c \in Conns :
          LET p == peers[c]
          IN  (p.parsed /\ p.pc # "handler") =>
                  IF RegsOf(p.path) # {}
                  THEN p.invoked = <<regs[Max(RegsOf(p.path))].handler>>
                  ELSE /\ p.invoked = <<>>
                       /\ \A i \in DOMAIN p.hdrs :
                             p.hdrs[i].by = "router" /\ p.hdrs[i].status = 40

\* "/hi" was registered twice with different handlers and the request
\* "/hi/" was answered as unmatched
C15_Witness ==
    /\ Len(regs) >= 2
    /\ regs[1].path = <<47, 104, 105>> /\ regs[2].path = <<47, 104, 105>>
    /\ regs[1].handler # regs[2].handler
    /\ <<47, 104, 105, 47>> \notin DOMAIN pathTbl
    /\ peers[1].pc = "closed"
    /\ peers[1].path = <<47, 104, 105, 47>>
    /\ peers[1].invoked = <<>>
    /\ Len(peers[1].hdrs) = 1

\* C16: in a connection nothing is written, and no handler is invoked,
\* before readRequest has read the request line and ParseURL has parsed
\* it (for a request within the bound, every byte of it); the handler is
\* invoked at most once; nothing is read once the line has been parsed;
\* and nothing is read or written once the socket is closed.
C16_Ordered ==
    /\ [](\A c \in Conns :
            LET p == peers[c]
            IN  /\ (p.out # <<>> \/ p.calls # <<>> \/ p.invoked # <<>>) =>
                      /\ p.parsed
                      /\ p.pc \notin {"readRequest", "ParseURL"}
                      /\ p.rawURL = Slice(p.buf, 0, p.length - 2)
                      /\ (Len(p.request) <= ReqBufSize /\ EndsWithCRLF(p.request)) =>
                            p.stream = <<>> /\ p.rawURL = Chop(p.request)
                /\ Len(p.invoked) <= 1)
    /\ [][\A c \in Conns :
            /\ peers[c].parsed =>
                  peers'[c].stream = peers[c].stream /\ peers'[c].buf = peers[c].buf
            /\ peers[c].pc = "closed" => peers'[c] = peers[c]]_vars

\* a request was read, parsed, dispatched to its handler and answered,
\* and the socket is closed
C16_Witness ==
    /\ peers[1].pc = "closed"
    /\ peers[1].panic = NoPanic
    /\ peers[1].parsed
    /\ peers[1].invoked = <<"handleHi">>
    /\ Len(peers[1].calls) = 2
    /\ peers[1].out # <<>>

RECURSIVE Flat(_)
\* the concatenation of a sequence of byte strings
Flat(ss) == IF ss = <<>> THEN <<>> ELSE Head(ss) \o Flat(Tail(ss))

\* C17: the bytes the socket has accepted are the arguments of the Write
\* calls made so far, in order, without a gap or a repetition, the last
\* one up to the count accepted so far; a Write call has returned (the
\* next call was made, or the handler returned) only with all of its
\* argument accepted; and a shortfall is only left behind by a panic
\* raised in Write on a socket error or a zero-length write.
C17_WriteComplete ==
    \A c \in Conns :
        LET p == peers[c]
            n == Len(p.calls)
        IN  /\ IsPrefix(p.out, Flat(p.calls))
            /\ \A i \in 1..(n - 1) : IsPrefix(Flat(SubSeq(p.calls, 1, i)), p.out)
            /\ (p.pc = "Write" /\ p.written > 0) =>
                  /\ n > 0
                  /\ p.written < Len(p.calls[n])
                  /\ p.out = Flat(SubSeq(p.calls, 1, n - 1))
                                \o Slice(p.calls[n], 0, p.written)
            /\ (p.pc = "Write" /\ p.written = 0) => p.out = Flat(p.calls)
            /\ (p.pc \in {"Kill", "closed"} /\ p.panic = NoPanic) => p.out = Flat(p.calls)
            /\ (p.pc \in {"Kill", "closed"} /\ p.out # Flat(p.calls)) =>
                  /\ p.panicIn = "Write"
                  /\ p.panic \in {"write error", "premature socket hangup!"}

\* the socket has accepted the status line and a part of the body
C17_Witness ==
    /\ peers[1].pc = "Write"
    /\ Len(peers[1].calls) = 2
    /\ peers[1].written > 0
    /\ peers[1].written < Len(peers[1].calls[2])

\* the connections for which a handling task has been started
Started == {c \in Conns : peers[c].pc # "idle"}

\* C18: there are as many peers with a handling task as connections
\* accepted; an Accept that returns a connection starts one task, on a
\* new peer, and touches no other peer; a task is never started on a peer
\* that has one; a failed Accept starts nothing, and after it the loop
\* still accepts.
C18_OneTaskPerConn ==
    /\ [](/\ Started = 1..server.accepted
          /\ server.accepted < MaxConns => ENABLED Accept(Requests, MaxConns))
    /\ [][/\ server'.accepted \in {server.accepted, server.accepted + 1}
          /\ server'.accepted = server.accepted + 1 =>
                /\ peers[server'.accepted].pc = "idle"
                /\ peers'[server'.accepted].pc = "readRequest"
                /\ peers'[server'.accepted].length = 0
                /\ \A d \in Conns \ {server'.accepted} : peers'[d] = peers[d]
          /\ server'.accepted = server.accepted =>
                \A c \in Conns : peers[c].pc = "idle" => peers'[c] = peers[c]
          /\ server'.acceptErrs # server.acceptErrs =>
                /\ peers' = peers
                /\ server'.accepted = server.accepted
                /\ ~server'.crashed
          /\ \A c \in Started :
                /\ peers'[c].request = peers[c].request
                /\ peers[c].pc # "readRequest" => peers'[c].pc # "readRequest"]_vars

\* an Accept has failed and every connection slot has been accepted and
\* given its task
C18_Witness ==
    /\ server.acceptErrs > 0
    /\ server.accepted >= 2
    /\ peers[1].pc # "idle"
    /\ peers[2].pc # "idle"

\* C19: when the client has received 1029 bytes of response and they do
\* not end in the terminator, no header is returned: the body is not
\* read and NewRequest returns (nil, err).
C19_HeaderBound ==
    (req.length = HdrBufSize /\ ~EndsWithCRLF(req.buf)) =>
        /\ ~req.headerRead
        /\ req.pc # "readBody"
        /\ req.pc = "returned" => (req.ret.err /\ ~req.ret.req)

\* "20 text/gemini" CR LF
SuccessLine == <<50, 48, 32, 116, 101, 120, 116, 47, 103, 101, 109, 105, 110, 105, 13, 10>>

\* "# Stay Tuned!\n\n"
StayTunedBody == <<35, 32, 83, 116, 97, 121, 32, 84, 117, 110, 101, 100, 33, 10, 10>>

\* the handling task has ended without a panic
Served(p) == p.pc \in {"Kill", "closed"} /\ p.panic = NoPanic

\* C20: the first Write of a connection is a status line, two digits, a
\* space, the meta and CR LF; a second Write, the body, is only made
\* after the line "20 text/gemini"; after a 10 or 40 line nothing more is
\* written; and the bytes of a connection served by SendBody are the
\* success line followed by the whole body buffer.
C20_BodyAfterSuccess ==
    \A c \in Conns :
        LET p == peers[c]
        IN  /\ Len(p.hdrs) <= 1
            /\ p.calls # <<>> =>
                  /\ Len(p.hdrs) = 1
                  /\ p.calls[1] = <<48 + (p.hdrs[1].status \div 10),
                                    48 + (p.hdrs[1].status % 10), 32>>
                                      \o p.hdrs[1].meta \o <<13, 10>>
                  /\ p.hdrs[1].status \in {10, 40} =>
                        Len(p.calls) = 1 /\ IsPrefix(p.out, p.calls[1])
                  /\ Len(p.calls) > 1 =>
                        /\ Len(p.calls) = 2
                        /\ p.calls[1] = SuccessLine
                  /\ Len(p.out) > Len(p.calls[1]) => HasPrefix(p.out, SuccessLine)
            /\ (Served(p) /\ p.invoked = <<"handleHi">>) =>
                  p.out = SuccessLine \o StayTunedBody
            /\ (Served(p) /\ p.calls # <<>> /\ p.hdrs[1].status \in {10, 40}) =>
                  p.out = p.calls[1]

\* a connection served by SendBody: the success line and the body
C20_Witness ==
    /\ peers[1].pc = "closed"
    /\ peers[1].panic = NoPanic
    /\ peers[1].invoked = <<"handleHi">>
    /\ peers[1].out = SuccessLine \o StayTunedBody
    /\ Len(peers[1].calls) = 2

\* C21: in readRequest and in readHeaders the byte count is the number of
\* bytes in the buffer and stays within 0 and the bound (1026, 1029); a
\* read is only issued while the count is below the bound; and when the
\* loop has ended the count is at least 3, so that buf[:length-2] is a
\* slice within the buffer.
C21_LengthBounds ==
    /\ \A c \in Conns :
          LET p == peers[c]
          IN  /\ p.length = Len(p.buf)
              /\ 0 <= p.length /\ p.length <= ReqBufSize
              /\ p.pc = "readRequest" => p.length < ReqBufSize
              /\ (p.pc = "ParseURL" \/ p.parsed) =>
                    /\ p.length >= 3
                    /\ 0 <= p.length - 2 /\ p.length - 2 <= Len(p.buf)
              /\ p.parsed => Len(p.rawURL) = p.length - 2
    /\ req.length = Len(req.buf)
    /\ 0 <= req.length /\ req.length <= HdrBufSize
    /\ req.pc = "readHeaders" => req.length < HdrBufSize
    /\ req.headerRead =>
          /\ req.length >= 3
          /\ Len(req.responseHeader) = req.length - 2

\* the shortest request, "/" CR LF, ended the loop of readRequest with
\* three bytes
C21_Witness ==
    /\ peers[1].parsed
    /\ peers[1].length = 3
    /\ peers[1].rawURL = <<47>>

\* the response has a first CR LF that fits the header buffer
HeaderInBound(response) ==
    Index(response, CRLF) # -1 /\ Index(response, CRLF) + 2 <= HdrBufSize

\* C22: the header readHeaders returns is the bytes before the first CR LF
\* of the response, however the response was split across reads, a read
\* that returns the end of the header together with body bytes included.
C22_HeaderExact ==
    (req.headerRead /\ HeaderInBound(req.response)) =>
        req.responseHeader = Slice(req.response, 0, Index(req.response, CRLF))

\* C23: for a URL u with a scheme, a host, a path and possibly a query,
\* without percent escapes, the bytes LazyRequest(u) has written when it
\* starts to read the response are u followed by CR LF, and what it has
\* written before is a prefix of that.
C23_LazyLine ==
    (url \in CleanUrls /\ req.dialed) =>
        /\ IsPrefix(req.sent, url \o <<13, 10>>)
        /\ req.pc \in {"readHeaders", "readBody"} => req.sent = url \o <<13, 10>>

\* C24: when NewRequest has returned after a successful dial, with a
\* request or with an error, the socket it opened has been closed.
C24_ClientSocketClosed ==
    (req.pc = "returned" /\ req.dialed) => req.closes >= 1

====
